---- MODULE Spec2Model ----
(***************************************************************************)
(* A model of the block-execution core of grug: the App state machine of   *)
(* crates/app/src/app.rs (init_chain, finalize_block, commit, query), the  *)
(* transaction and message pipeline under it (run_tx, run_msg, store_code, *)
(* instantiate, execute), the query handlers, and the layered store the    *)
(* handlers run against (CacheStore, PrefixStore, Flush).                  *)
(*                                                                         *)
(* Storage keys are tuples: <<"cid">>, <<"lfb">>, <<"c", hash>>,           *)
(* <<"a", addr>> and <<"w", addr, user_key>>.  An Option is a sequence of  *)
(* length 0 (None) or 1 (Some).  A Batch is a pair of a map of puts and a  *)
(* set of deleted keys.                                                    *)
(*                                                                         *)
(* Not modelled: funds (instantiate and execute debug_assert that they are *)
(* empty), sub-messages (debug_assert: unimplemented), wasm byte code that *)
(* fails to build (must_build_wasm_instance panics), storage I/O failure.  *)
(***************************************************************************)
EXTENDS Integers, Sequences, FiniteSets, TLC

VARIABLES
    store,          \* App.store: Option<S>, S the data of the committed store
    pending,        \* App.pending: Option<Batch>
    current_block,  \* App.current_block: Option<BlockInfo>
    panicked,       \* a handler panicked: the process is gone
    last,           \* the last call: its name, what it returned, its response
    log,            \* the tracing output of the last call, one sequence per tx
    tx_outcomes,    \* the per-tx outcomes of the last finalize_block
    finalized,      \* the data of the store as init_chain or commit last left it
    fee,            \* the fee pipeline of one tx: taxman config, balances, phase
    suite           \* TestSuite.block: the block the test suite tracks

app_vars == <<store, pending, current_block, panicked, last, log, tx_outcomes, finalized>>

vars ==
    <<store, pending, current_block, panicked, last, log, tx_outcomes, finalized, fee,
      suite>>

(***************************************************************************)
(* Bounds and program constants                                            *)
(***************************************************************************)
MaxBlockMsgs == 2

MaxHeight == 2

MaxTime == 2

DEFAULT_PAGE_LIMIT == 30

(***************************************************************************)
(* Option                                                                  *)
(***************************************************************************)
None == << >>

Some(x) == <<x>>

IsSome(o) == Len(o) = 1

IsNone(o) == Len(o) = 0

(***************************************************************************)
(* Input universe                                                          *)
(***************************************************************************)
\* wasm byte codes that can be uploaded
Codes == {1}

\* salts of Instantiate
Salts == {1}

\* the admin of Instantiate
Admins == {None}

\* the user key a contract reads and writes in its own storage
UserKey == "k"

\* messages to the instantiate entry point
InstantiateMsgTexts == {"ok", "fail"}

\* messages to the execute entry point
ExecuteMsgTexts == {"clear"}

\* messages to the query entry point
QueryMsgs == {"get", "poke"}

ChainIds == {"grug-1"}

\* cw_std::hash: SHA-256 of the byte code, injective on the codes of the model
Hash(wasm_byte_code) == 100 + wasm_byte_code

Hashes == {Hash(b) : b \in Codes}

\* Addr::compute(&code_hash, &salt)
AddrCompute(code_hash, salt) == code_hash * 10 + salt

Addrs == {AddrCompute(h, s) : h \in Hashes, s \in Salts}

\* the genesis block of a test suite
GenesisBlock == [height |-> 0, timestamp |-> 0]

BlockInfos == [height : 1..MaxHeight, timestamp : 1..MaxTime]

StoreCodeMsgs == [type : {"StoreCode"}, wasm_byte_code : Codes]

InstantiateMsgs ==
    [type : {"Instantiate"}, code_hash : Hashes, msg : InstantiateMsgTexts,
     salt : Salts, admin : Admins]

ExecuteMsgs == [type : {"Execute"}, contract : Addrs, msg : ExecuteMsgTexts]

Messages == StoreCodeMsgs \cup InstantiateMsgs \cup ExecuteMsgs

SeqsUpTo(S, n) == UNION {[1..k -> S] : k \in 0..n}

\* every way to cut a sequence of messages into consecutive non-empty txs
RECURSIVE Splits(_)
Splits(ms) ==
    IF ms = << >> THEN {<< >>}
    ELSE UNION {{<<[msgs |-> SubSeq(ms, 1, k)]>> \o rest :
                    rest \in Splits(SubSeq(ms, k + 1, Len(ms)))} :
                k \in 1..Len(ms)}

\* the tx lists of a block that holds at most n messages in all
Blocks(n) == UNION {Splits(ms) : ms \in SeqsUpTo(Messages, n)}

\* the tx lists of a block: at most MaxBlockMsgs messages in all
BlockTxs == Blocks(MaxBlockMsgs)

\* the tx lists of a block of at most one message
SmallBlockTxs == Blocks(1)

GenesisMsgs == {<< >>, <<[type |-> "StoreCode", wasm_byte_code |-> 1]>>}

Queries ==
    [type : {"Info"}]
    \cup [type : {"Account"}, address : Addrs]
    \cup [type : {"Accounts"},
          start_after : {None} \cup {Some(a) : a \in Addrs},
          limit : {None, Some(1)}]
    \cup [type : {"WasmRaw"}, contract : Addrs, key : {UserKey}]
    \cup [type : {"WasmSmart"}, contract : Addrs, msg : QueryMsgs]

(***************************************************************************)
(* Storage keys                                                            *)
(***************************************************************************)
CHAIN_ID == <<"cid">>

LAST_FINALIZED_BLOCK == <<"lfb">>

CODES(hash) == <<"c", hash>>

ACCOUNTS(addr) == <<"a", addr>>

CONTRACT_NAMESPACE == "w"

(***************************************************************************)
(* Storage, Batch, Flush, CacheStore, PrefixStore                          *)
(***************************************************************************)
Restrict(f, S) == [k \in S |-> f[k]]

EmptyBatch == [put |-> << >>, del |-> {}]

\* a plain store S holding `data`
Mem(data) == [kind |-> "mem", data |-> data]

\* CacheStore::new(store, pending)
CacheNew(base, pending_opt) ==
    [kind |-> "cache", base |-> base,
     batch |-> IF IsSome(pending_opt) THEN pending_opt[1] ELSE EmptyBatch]

\* Storage::read
RECURSIVE Read(_, _)
Read(st, k) ==
    IF st.kind = "mem"
    THEN IF k \in DOMAIN st.data THEN Some(st.data[k]) ELSE None
    ELSE IF k \in DOMAIN st.batch.put THEN Some(st.batch.put[k])
    ELSE IF k \in st.batch.del THEN None
    ELSE Read(st.base, k)

\* Storage::write
Write(st, k, v) ==
    IF st.kind = "mem"
    THEN [st EXCEPT !.data = (k :> v) @@ @]
    ELSE [st EXCEPT !.batch = [put |-> (k :> v) @@ @.put, del |-> @.del \ {k}]]

\* Storage::remove
Remove(st, k) ==
    IF st.kind = "mem"
    THEN [st EXCEPT !.data = Restrict(@, DOMAIN @ \ {k})]
    ELSE [st EXCEPT !.batch = [put |-> Restrict(@.put, DOMAIN @.put \ {k}),
                                del |-> @.del \cup {k}]]

\* Flush::flush(batch): apply the puts and deletes of a batch to a store
Flush(st, batch) ==
    IF st.kind = "mem"
    THEN [st EXCEPT !.data =
            batch.put @@ Restrict(@, DOMAIN @ \ batch.del)]
    ELSE [st EXCEPT !.batch =
            [put |-> batch.put @@ Restrict(@.put, DOMAIN @.put \ batch.del),
             del |-> (@.del \ DOMAIN batch.put) \cup batch.del]]

\* CacheStore::disassemble
Disassemble(cached) == [store |-> cached.base, batch |-> cached.batch]

\* CacheStore::flush: merge the overlay into the inner store, return the inner
CacheFlush(cached) == Flush(cached.base, cached.batch)

\* the keys a store holds
RECURSIVE KeysOf(_)
KeysOf(st) ==
    IF st.kind = "mem" THEN DOMAIN st.data
    ELSE (KeysOf(st.base) \ st.batch.del) \cup DOMAIN st.batch.put

\* faulty variant: the prefix leaves the contract's address out
PrefixKey_shared(addr, k) == <<CONTRACT_NAMESPACE, 0, k>>

\* PrefixStore::new(store, &[CONTRACT_NAMESPACE, addr]): the key under the prefix
PrefixKey(addr, k) == <<CONTRACT_NAMESPACE, addr, k>>

\* Item::load / Map::load / Map::has
Has(st, k) == IsSome(Read(st, k))

(***************************************************************************)
(* The wasm host.  A contract is byte code; what it does at an entry point *)
(* is a sequence of calls of the host functions build_wasm_instance        *)
(* registers (db_read, db_write, db_remove), then Ok or Err.  The codes of *)
(* the model all run the program below, steered by the message.            *)
(***************************************************************************)
Wasm(wasm_byte_code, entry, msg) ==
    CASE entry = "instantiate" ->
           [calls |-> <<[fn |-> "db_write", key |-> UserKey, value |-> 1]>>,
            ok |-> msg = "ok"]
      [] entry = "execute" ->
           [calls |-> <<[fn |-> "db_remove", key |-> UserKey, value |-> 0]>>,
            ok |-> TRUE]
      [] entry = "query" /\ msg = "get" ->
           [calls |-> <<[fn |-> "db_read", key |-> UserKey, value |-> 0]>>,
            ok |-> TRUE]
      [] OTHER ->
           [calls |-> <<[fn |-> "db_remove", key |-> UserKey, value |-> 0]>>,
            ok |-> TRUE]

\* the host functions, each on the PrefixStore of the contract at addr
db_read(st, addr, key) == Read(st, PrefixKey(addr, key))

db_write(st, addr, key, value) == Write(st, PrefixKey(addr, key), value)

db_remove(st, addr, key) == Remove(st, PrefixKey(addr, key))

\* the host calls of one contract call, in order; data is the last value read
RECURSIVE HostCalls(_, _, _, _)
HostCalls(st, addr, calls, data) ==
    IF calls = << >> THEN [store |-> st, data |-> data]
    ELSE LET c == Head(calls) IN
         CASE c.fn = "db_read" ->
                HostCalls(st, addr, Tail(calls), db_read(st, addr, c.key))
           [] c.fn = "db_write" ->
                HostCalls(db_write(st, addr, c.key, c.value), addr, Tail(calls), data)
           [] OTHER ->
                HostCalls(db_remove(st, addr, c.key), addr, Tail(calls), data)

\* what a contract call hands back: the entry point's result, and the store
\* of the instance after into_data().disassemble()
CallResult(ok, r) == [ok |-> ok, store |-> r.store, data |-> r.data]

\* the host running the program w of an entry point on the contract's store
HostRun(st, addr, w) == CallResult(w.ok, HostCalls(st, addr, w.calls, None))

\* build_wasm_instance, Host::call_<entry>, then into_data().disassemble()
CallContract(st, addr, wasm_byte_code, entry, msg) ==
    HostRun(st, addr, Wasm(wasm_byte_code, entry, msg))

(***************************************************************************)
(* Message handlers                                                        *)
(***************************************************************************)
\* each handler returns its result (ok) and the store it was given back
store_code(st, wasm_byte_code) ==
    IF Has(st, CODES(Hash(wasm_byte_code)))
    THEN [ok |-> FALSE, store |-> st]
    ELSE [ok |-> TRUE, store |-> Write(st, CODES(Hash(wasm_byte_code)), wasm_byte_code)]

\* instantiate, after the call of the contract: on Err the store comes back
\* as the call left it; on Ok the account is saved
instantiate_called(call, address, account) ==
    IF ~call.ok
    THEN [ok |-> FALSE, store |-> call.store]
    ELSE [ok |-> TRUE, store |-> Write(call.store, ACCOUNTS(address), account)]

\* faulty variant: the account is saved although the code is not in CODES
instantiate_loaded_unchecked(st, code, address, msg, account) ==
    IF IsNone(code)
    THEN [ok |-> TRUE, store |-> Write(st, ACCOUNTS(address), account)]
    ELSE instantiate_called(CallContract(st, address, code[1], "instantiate", msg),
                            address, account)

\* instantiate, after CODES.load(code_hash)
instantiate_loaded(st, code, address, msg, account) ==
    IF IsNone(code)
    THEN [ok |-> FALSE, store |-> st]
    ELSE instantiate_called(CallContract(st, address, code[1], "instantiate", msg),
                            address, account)

instantiate(st, code_hash, msg, salt, admin) ==
    instantiate_loaded(st, Read(st, CODES(code_hash)), AddrCompute(code_hash, salt),
                       msg, [code_hash |-> code_hash, admin |-> admin])

\* execute, after the call of the contract
execute_called(call) == [ok |-> call.ok, store |-> call.store]

\* execute, after CODES.load(account.code_hash)
execute_loaded(st, code, contract, msg) ==
    IF IsNone(code)
    THEN [ok |-> FALSE, store |-> st]
    ELSE execute_called(CallContract(st, contract, code[1], "execute", msg))

\* execute, after ACCOUNTS.load(contract)
execute_account(st, account, contract, msg) ==
    IF IsNone(account)
    THEN [ok |-> FALSE, store |-> st]
    ELSE execute_loaded(st, Read(st, CODES(account[1].code_hash)), contract, msg)

execute(st, contract, msg) ==
    execute_account(st, Read(st, ACCOUNTS(contract)), contract, msg)

\* the line a handler's result is logged as (info! on Ok, error! on Err)
LogEntry(ok) == IF ok THEN "info" ELSE "error"

\* the match of run_msg: the handler a message is dispatched to
handle(st, msg) ==
    CASE msg.type = "StoreCode" -> store_code(st, msg.wasm_byte_code)
      [] msg.type = "Instantiate" ->
           instantiate(st, msg.code_hash, msg.msg, msg.salt, msg.admin)
      [] OTHER -> execute(st, msg.contract, msg.msg)

\* what run_msg returns for the handler's result r: the result is logged,
\* Ok(()) and the store are returned
run_msg_return(r) == [result |-> "Ok", store |-> r.store, entry |-> LogEntry(r.ok)]

\* run_msg: dispatch, log the handler's result, return Ok(()) and the store
run_msg(st, msg) == run_msg_return(handle(st, msg))

RECURSIVE run_tx_msgs(_, _, _)

\* faulty variant: the next message runs on a cache that has lost what the
\* earlier messages of the tx wrote
run_tx_step_isolated(r, msgs, entries) ==
    IF r.result = "Err"
    THEN [store |-> Disassemble(r.store).store, log |-> Append(entries, r.entry)]
    ELSE run_tx_msgs(CacheNew(Disassemble(r.store).store, None), Tail(msgs),
                     Append(entries, r.entry))

\* the body of the loop of run_tx, after run_msg returned r
run_tx_step(r, msgs, entries) ==
    IF r.result = "Err"
    THEN [store |-> Disassemble(r.store).store, log |-> Append(entries, r.entry)]
    ELSE run_tx_msgs(r.store, Tail(msgs), Append(entries, r.entry))

\* the loop of run_tx over tx.msgs, on the tx's cache
run_tx_msgs(cached, msgs, entries) ==
    IF msgs = << >>
    THEN [store |-> CacheFlush(cached), log |-> entries]
    ELSE run_tx_step(run_msg(cached, Head(msgs)), msgs, entries)

\* faulty variant: what a tx does depends on what this instance logged in
\* its previous call
run_tx_by_history(st, tx) ==
    IF log # << >>
    THEN run_tx_msgs(CacheNew(st, None), << >>, << >>)
    ELSE run_tx_msgs(CacheNew(st, None), tx.msgs, << >>)

run_tx(st, tx) == run_tx_msgs(CacheNew(st, None), tx.msgs, << >>)

RECURSIVE run_txs(_, _, _)

\* the body of the loop of finalize_block, after run_tx returned r
run_txs_step(r, txs, logs) == run_txs(r.store, Tail(txs), Append(logs, r.log))

\* faulty variant: a tx with a failed message ends the block
run_txs_abort_step(r, txs, logs) ==
    IF \E i \in 1..Len(r.log) : r.log[i] = "error"
    THEN [store |-> r.store, log |-> Append(logs, r.log)]
    ELSE run_txs(r.store, Tail(txs), Append(logs, r.log))

run_txs_abort(cached, txs, logs) ==
    IF txs = << >> THEN [store |-> cached, log |-> logs]
    ELSE run_txs_abort_step(run_tx(cached, Head(txs)), txs, logs)

\* faulty variant: the results of the txs are collected last first
run_txs_reversed_step(r, txs, logs) == run_txs(r.store, Tail(txs), <<r.log>> \o logs)

run_txs_reversed(cached, txs, logs) ==
    IF txs = << >> THEN [store |-> cached, log |-> logs]
    ELSE run_txs_reversed_step(run_tx(cached, Head(txs)), txs, logs)

\* faulty variant: the txs after the first are run before it
run_txs_tail_first(cached, txs, logs) ==
    IF txs = << >> THEN [store |-> cached, log |-> logs]
    ELSE LET rest == run_txs(cached, Tail(txs), << >>)
             r == run_tx(rest.store, Head(txs))
         IN  [store |-> r.store, log |-> logs \o <<r.log>> \o rest.log]

\* the loop of finalize_block over txs, on the block's cache
run_txs(cached, txs, logs) ==
    IF txs = << >> THEN [store |-> cached, log |-> logs]
    ELSE run_txs_step(run_tx(cached, Head(txs)), txs, logs)

\* the outcome of a tx, from what its messages returned
TxOutcome(entries) ==
    IF \E i \in 1..Len(entries) : entries[i] = "error" THEN "Err" ELSE "Ok"

(***************************************************************************)
(* Query handlers                                                          *)
(***************************************************************************)
query_info(st) ==
    IF Has(st, CHAIN_ID) /\ Has(st, LAST_FINALIZED_BLOCK)
    THEN [ok |-> TRUE,
          resp |-> Some([chain_id |-> Read(st, CHAIN_ID)[1],
                         last_finalized_block |-> Read(st, LAST_FINALIZED_BLOCK)[1]])]
    ELSE [ok |-> FALSE, resp |-> None]

AccountResponse(address, account) ==
    [address |-> address, code_hash |-> account.code_hash, admin |-> account.admin]

query_account(st, address) ==
    LET account == Read(st, ACCOUNTS(address)) IN
    IF IsSome(account)
    THEN [ok |-> TRUE, resp |-> Some(AccountResponse(address, account[1]))]
    ELSE [ok |-> FALSE, resp |-> None]

\* the elements of a set of numbers in ascending order (Order::Ascending)
RECURSIVE Ascending(_)
Ascending(S) ==
    IF S = {} THEN << >>
    ELSE LET m == CHOOSE x \in S : \A y \in S : x <= y
         IN  <<m>> \o Ascending(S \ {m})

\* Iterator::take
Take(seq, n) == SubSeq(seq, 1, IF n < Len(seq) THEN n ELSE Len(seq))

query_accounts(st, start_after, limit) ==
    LET stored == {k[2] : k \in {j \in KeysOf(st) : j[1] = "a"}}
        inRange == {a \in stored : IsNone(start_after) \/ a > start_after[1]}
        lim == IF IsSome(limit) THEN limit[1] ELSE DEFAULT_PAGE_LIMIT
        page == Take(Ascending(inRange), lim)
    IN  [ok |-> TRUE,
         resp |-> Some([i \in 1..Len(page) |->
                          AccountResponse(page[i], Read(st, ACCOUNTS(page[i]))[1])])]

\* query_wasm_smart, after the call of the contract
query_wasm_smart_called(call, contract) ==
    IF ~call.ok
    THEN [ok |-> FALSE, resp |-> None, store |-> call.store]
    ELSE [ok |-> TRUE,
          resp |-> Some([contract |-> contract, data |-> call.data]),
          store |-> call.store]

\* query_wasm_smart, after CODES.load(account.code_hash)
query_wasm_smart_loaded(st, code, contract, msg) ==
    IF IsNone(code)
    THEN [ok |-> FALSE, resp |-> None, store |-> st]
    ELSE query_wasm_smart_called(CallContract(st, contract, code[1], "query", msg),
                                 contract)

\* query_wasm_smart, after ACCOUNTS.load(contract)
query_wasm_smart_account(st, account, contract, msg) ==
    IF IsNone(account)
    THEN [ok |-> FALSE, resp |-> None, store |-> st]
    ELSE query_wasm_smart_loaded(st, Read(st, CODES(account[1].code_hash)),
                                 contract, msg)

query_wasm_smart(st, contract, msg) ==
    query_wasm_smart_account(st, Read(st, ACCOUNTS(contract)), contract, msg)

\* what query returns for the result r of a handler and the store it hands back
query_return(r, st) == [ok |-> r.ok, resp |-> r.resp, store |-> st, panic |-> FALSE]

\* what query returns for the result r of query_wasm_smart
query_return_smart(r) == query_return(r, r.store)

\* query: dispatch on the request; query_wasm_raw is todo!() and panics
query(st, req) ==
    CASE req.type = "Info" -> query_return(query_info(st), st)
      [] req.type = "Account" -> query_return(query_account(st, req.address), st)
      [] req.type = "Accounts" ->
           query_return(query_accounts(st, req.start_after, req.limit), st)
      [] req.type = "WasmRaw" ->
           [ok |-> FALSE, resp |-> None, store |-> st, panic |-> TRUE]
      [] OTHER -> query_return_smart(query_wasm_smart(st, req.contract, req.msg))

(***************************************************************************)
(* The App                                                                 *)
(***************************************************************************)
\* faulty variant: unwrap_or_default instead of failing on None
take_pending_or_default(p) ==
    [ok |-> TRUE, value |-> IF IsSome(p) THEN p ELSE Some(EmptyBatch), left |-> None]

\* Option::take of App.pending: what was there, and what is left
take_pending(p) == [ok |-> IsSome(p), value |-> p, left |-> None]

\* faulty variant: reads the current block and leaves it in place
take_current_block_peek(c) == [ok |-> IsSome(c), value |-> c, left |-> c]

\* Option::take of App.current_block
take_current_block(c) == [ok |-> IsSome(c), value |-> c, left |-> None]

\* faulty variant: overwrites the current block instead of refusing
put_current_block_overwrite(c, block) == [ok |-> TRUE, now |-> Some(block)]

\* App::put_current_block: refused when a current block is already there
put_current_block(c, block) ==
    IF IsSome(c) THEN [ok |-> FALSE, now |-> c] ELSE [ok |-> TRUE, now |-> Some(block)]

\* the store App::query hands to the query handlers
query_store(s, p) == Mem(s[1])

\* what a call returned: its name, Ok/Err/Panic, the error, its arguments
\* (the txs of finalize_block, the request of query) and the query response
Returned(op, ret, err, txs, req, resp) ==
    [op |-> op, ret |-> ret, err |-> err, txs |-> txs, req |-> req, resp |-> resp]

\* App::new(store), on an empty store
Init ==
    /\ store = Some(<< >>)
    /\ pending = None
    /\ current_block = None
    /\ finalized = << >>
    /\ fee = [phase |-> "none"]
    /\ suite = [block |-> GenesisBlock]
    /\ panicked = FALSE
    /\ last = Returned("new", "Ok", "", << >>, None, None)
    /\ log = << >>
    /\ tx_outcomes = << >>

\* App::init_chain.  A debug build panics on genesis messages
\* (debug_assert!), a release build ignores them.
init_chain(genesis_state, debug_build) ==
    /\ ~panicked
    /\ UNCHANGED <<fee, suite>>
    /\ log' = << >>
    /\ tx_outcomes' = << >>
    /\ UNCHANGED <<pending, current_block>>
    /\ IF IsNone(store)
       THEN /\ last' = Returned("init_chain", "Err", "store not found", << >>,
                            Some(genesis_state), None)
            /\ UNCHANGED <<store, panicked, finalized>>
       ELSE IF genesis_state.msgs # << >> /\ debug_build
       THEN /\ store' = None
            /\ panicked' = TRUE
            /\ UNCHANGED finalized
            /\ last' = Returned("init_chain", "Panic", "", << >>, Some(genesis_state), None)
       ELSE /\ store' = Some(Write(Mem(store[1]), CHAIN_ID, genesis_state.chain_id).data)
            /\ finalized' = store'[1]
            /\ UNCHANGED panicked
            /\ last' = Returned("init_chain", "Ok", "", << >>, Some(genesis_state), None)

\* App::finalize_block, after the loop over the txs: the block cache is
\* disassembled, store and pending are put back, then put_current_block
finalize_block_put(ran, put, txs) ==
    /\ store' = Some(Disassemble(ran.store).store.data)
    /\ pending' = Some(Disassemble(ran.store).batch)
    /\ log' = ran.log
    /\ current_block' = put.now
    /\ IF put.ok
       THEN /\ tx_outcomes' = [i \in 1..Len(ran.log) |-> TxOutcome(ran.log[i])]
            /\ last' = Returned("finalize_block", "Ok", "", txs, None, None)
       ELSE /\ tx_outcomes' = << >>
            /\ last' = Returned("finalize_block", "Err",
                                "current block info already exists",
                                txs, None, None)

\* App::finalize_block
finalize_block(block, txs) ==
    /\ ~panicked
    /\ UNCHANGED <<panicked, finalized, fee, suite>>
    /\ IF IsNone(store)
       THEN /\ last' = Returned("finalize_block", "Err", "store not found", txs, None, None)
            /\ log' = << >>
            /\ tx_outcomes' = << >>
            /\ UNCHANGED <<store, pending, current_block>>
       ELSE finalize_block_put(run_txs(CacheNew(Mem(store[1]), pending), txs, << >>),
                               put_current_block(current_block, block), txs)

\* App::commit
commit ==
    /\ ~panicked
    /\ UNCHANGED <<panicked, fee, suite>>
    /\ log' = << >>
    /\ tx_outcomes' = << >>
    /\ IF IsNone(store)
       THEN /\ last' = Returned("commit", "Err", "store not found", << >>, None, None)
            /\ UNCHANGED <<store, pending, current_block, finalized>>
       ELSE LET p == take_pending(pending)
                c == take_current_block(current_block)
            IN  IF ~p.ok
                THEN /\ store' = None
                     /\ pending' = p.left
                     /\ UNCHANGED <<current_block, finalized>>
                     /\ last' = Returned("commit", "Err", "pending batch not found",
                                         << >>, None, None)
                ELSE IF ~c.ok
                THEN /\ store' = None
                     /\ pending' = p.left
                     /\ current_block' = c.left
                     /\ UNCHANGED finalized
                     /\ last' = Returned("commit", "Err", "current block info not found",
                                         << >>, None, None)
                ELSE /\ store' = Some(Write(Flush(Mem(store[1]), p.value[1]),
                                            LAST_FINALIZED_BLOCK, c.value[1]).data)
                     /\ pending' = p.left
                     /\ current_block' = c.left
                     /\ finalized' = store'[1]
                     /\ last' = Returned("commit", "Ok", "", << >>, None, None)

\* App::query, after the handler returned r: the store is put back
query_put(r, req) ==
    IF r.panic
    THEN /\ store' = None
         /\ panicked' = TRUE
         /\ last' = Returned("query", "Panic", "", << >>, Some(req), None)
    ELSE /\ store' = Some(r.store.data)
         /\ UNCHANGED panicked
         /\ last' = Returned("query", IF r.ok THEN "Ok" ELSE "Err",
                             IF r.ok THEN "" ELSE "query failed",
                             << >>, Some(req), r.resp)

\* App::query
do_query(req) ==
    /\ ~panicked
    /\ log' = << >>
    /\ tx_outcomes' = << >>
    /\ UNCHANGED <<pending, current_block, finalized, fee, suite>>
    /\ IF IsNone(store)
       THEN /\ last' = Returned("query", "Err", "store not found", << >>, Some(req), None)
            /\ UNCHANGED <<store, panicked>>
       ELSE query_put(query(query_store(store, pending), req), req)

GenesisStates == [chain_id : ChainIds, msgs : GenesisMsgs]

\* the App driven by any caller: every entry point, any block info, blocks of
\* at most one message
Next ==
    \/ \E g \in GenesisStates, d \in BOOLEAN : init_chain(g, d)
    \/ \E b \in BlockInfos, txs \in SmallBlockTxs : finalize_block(b, txs)
    \/ commit
    \/ \E req \in Queries : do_query(req)

Spec == Init /\ [][Next]_vars

\* the block a driver proposes next: the height after the last finalized one
LastFinalizedHeight ==
    IF IsSome(store) /\ LAST_FINALIZED_BLOCK \in DOMAIN store[1]
    THEN store[1][LAST_FINALIZED_BLOCK].height ELSE 0

ProposedBlock == [height |-> LastFinalizedHeight + 1, timestamp |-> 1]

\* block execution: finalize_block on every tx list of BlockTxs, and commit
NextBlock ==
    \/ \E txs \in BlockTxs :
          /\ LastFinalizedHeight < MaxHeight
          /\ finalize_block(ProposedBlock, txs)
    \/ commit

BlockSpec == Init /\ [][NextBlock]_vars

(***************************************************************************)
(* The fee pipeline of one tx: the taxman's withhold_fee and finalize_fee  *)
(* (contracts/taxman/src/execute.rs) and the messages of their responses,  *)
(* carried out by the bank on the fee_denom balances.  Numbers are scaled  *)
(* down: a u64 is 0..MaxGas, a fee rate is a number of atomics of          *)
(* 1/DecimalFraction, a Uint128 holds at most Max128 and a Uint256 at most *)
(* Max256; the bank holds balances up to MaxBalance, which is above what  *)
(* a Uint128 holds, as the Uint256 amount of ForceTransfer allows.         *)
(***************************************************************************)
MaxGas == 3

MaxRate == 4

DecimalFraction == 2

Max128 == 4

MaxBalance == 6

Max256 == Max128 * Max128

FeeParties == {"sender", "taxman", "owner", "other"}

\* Uint::checked_mul_dec_ceil(rate) in an integer type that holds at most max
checked_mul_dec_ceil(x, rate, max) ==
    [ok |-> (x * rate + DecimalFraction - 1) \div DecimalFraction <= max,
     value |-> (x * rate + DecimalFraction - 1) \div DecimalFraction]

\* Uint::saturating_sub
saturating_sub(a, b) == IF a > b THEN a - b ELSE 0

\* Response::may_add_message
may_add_message(msgs, msg) == msgs \o msg

\* faulty variant: the amount is floored
withhold_fee_floor(cfg, info, tx, contract) ==
    LET amount == (tx.gas_limit * cfg.fee_rate) \div DecimalFraction IN
    [ok |-> TRUE,
     msgs |-> IF amount # 0
              THEN <<[type |-> "ForceTransfer", bank |-> info.bank, from |-> tx.sender,
                      to |-> contract, denom |-> cfg.fee_denom, amount |-> amount]>>
              ELSE << >>,
     withhold_amount |-> amount]

\* withhold_fee(ctx, tx): cfg is CONFIG.load, info is querier.query_info(),
\* contract is ctx.contract
withhold_fee(cfg, info, tx, contract) ==
    LET withhold_amount == checked_mul_dec_ceil(tx.gas_limit, cfg.fee_rate, Max256) IN
    IF ~withhold_amount.ok
    THEN [ok |-> FALSE, msgs |-> << >>, withhold_amount |-> 0]
    ELSE LET withhold_msg ==
                 IF withhold_amount.value # 0
                 THEN Some([type |-> "ForceTransfer", bank |-> info.bank,
                            from |-> tx.sender, to |-> contract,
                            denom |-> cfg.fee_denom,
                            amount |-> withhold_amount.value])
                 ELSE None
         IN  [ok |-> TRUE,
              msgs |-> may_add_message(<< >>, withhold_msg),
              withhold_amount |-> withhold_amount.value]

\* faulty variant: the refund is emitted before the charge
finalize_fee_refund_first(cfg, info, tx, outcome) ==
    LET withheld == checked_mul_dec_ceil(tx.gas_limit, cfg.fee_rate, Max128).value
        charge == checked_mul_dec_ceil(outcome.gas_used, cfg.fee_rate, Max128).value
        refund == saturating_sub(withheld, charge)
    IN  [ok |-> withheld <= Max128 /\ charge <= Max128,
         msgs |-> (IF refund # 0
                   THEN <<[type |-> "Transfer", to |-> tx.sender,
                           denom |-> cfg.fee_denom, amount |-> refund]>>
                   ELSE << >>)
                  \o (IF charge # 0
                      THEN <<[type |-> "Transfer", to |-> info.owner,
                              denom |-> cfg.fee_denom, amount |-> charge]>>
                      ELSE << >>),
         withheld_amount |-> withheld, charge_amount |-> charge,
         refund_amount |-> refund]

\* faulty variant: the charge goes to an address that is not the owner
finalize_fee_charge_elsewhere(cfg, info, tx, outcome) ==
    LET withheld == checked_mul_dec_ceil(tx.gas_limit, cfg.fee_rate, Max128).value
        charge == checked_mul_dec_ceil(outcome.gas_used, cfg.fee_rate, Max128).value
        refund == saturating_sub(withheld, charge)
    IN  [ok |-> withheld <= Max128 /\ charge <= Max128,
         msgs |-> (IF charge # 0
                   THEN <<[type |-> "Transfer", to |-> "other",
                           denom |-> cfg.fee_denom, amount |-> charge]>>
                   ELSE << >>)
                  \o (IF refund # 0
                      THEN <<[type |-> "Transfer", to |-> tx.sender,
                              denom |-> cfg.fee_denom, amount |-> refund]>>
                      ELSE << >>),
         withheld_amount |-> withheld, charge_amount |-> charge,
         refund_amount |-> refund]

\* finalize_fee(ctx, tx, outcome)
finalize_fee(cfg, info, tx, outcome) ==
    LET withheld_amount == checked_mul_dec_ceil(tx.gas_limit, cfg.fee_rate, Max128)
        charge_amount == checked_mul_dec_ceil(outcome.gas_used, cfg.fee_rate, Max128)
    IN  IF ~withheld_amount.ok \/ ~charge_amount.ok
        THEN [ok |-> FALSE, msgs |-> << >>, withheld_amount |-> 0,
              charge_amount |-> 0, refund_amount |-> 0]
        ELSE LET refund_amount == saturating_sub(withheld_amount.value, charge_amount.value)
                 charge_msg ==
                     IF charge_amount.value # 0
                     THEN Some([type |-> "Transfer", to |-> info.owner,
                                denom |-> cfg.fee_denom,
                                amount |-> charge_amount.value])
                     ELSE None
                 refund_msg ==
                     IF refund_amount # 0
                     THEN Some([type |-> "Transfer", to |-> tx.sender,
                                denom |-> cfg.fee_denom, amount |-> refund_amount])
                     ELSE None
             IN  [ok |-> TRUE,
                  msgs |-> may_add_message(may_add_message(<< >>, charge_msg), refund_msg),
                  withheld_amount |-> withheld_amount.value,
                  charge_amount |-> charge_amount.value,
                  refund_amount |-> refund_amount]

\* the bank moving amount of fee_denom: refused when the payer has less
bank_transfer(balances, from, to, amount) ==
    IF balances[from] < amount
    THEN [ok |-> FALSE, balances |-> balances]
    ELSE [ok |-> TRUE,
          balances |-> [p \in FeeParties |->
                          balances[p] - (IF p = from THEN amount ELSE 0)
                                      + (IF p = to THEN amount ELSE 0)]]

\* who pays a message of a response of the taxman: ForceTransfer names the
\* payer, Transfer is paid by the contract that emitted it
Payer(msg, contract) == IF msg.type = "ForceTransfer" THEN msg.from ELSE contract

\* the messages of a response carried out in order; one that fails fails the
\* response and nothing of it is kept
RECURSIVE run_response(_, _, _)
run_response(balances, msgs, contract) ==
    IF msgs = << >> THEN [ok |-> TRUE, balances |-> balances]
    ELSE LET r == bank_transfer(balances, Payer(Head(msgs), contract),
                                Head(msgs).to, Head(msgs).amount)
         IN  IF ~r.ok THEN r ELSE run_response(r.balances, Tail(msgs), contract)

\* faulty variant: the new config is saved whoever sends it
update_config_unchecked(info, sender, cfg, new_cfg) ==
    [ok |-> TRUE, err |-> "", cfg |-> new_cfg]

\* update_config: only the chain's owner can update the fee config
update_config(info, sender, cfg, new_cfg) ==
    IF sender # info.owner
    THEN [ok |-> FALSE,
          err |-> "you don't have the right, O you don't have the right",
          cfg |-> cfg]
    ELSE [ok |-> TRUE, err |-> "", cfg |-> new_cfg]

FeeConfigs == [fee_rate : 0..MaxRate, fee_denom : {"fee"}]

FeeInfo == [owner |-> "owner", bank |-> "bank"]

\* a tx arrives: nothing withheld yet
FeeInit ==
    /\ store = Some(<< >>)
    /\ pending = None
    /\ current_block = None
    /\ finalized = << >>
    /\ panicked = FALSE
    /\ last = Returned("new", "Ok", "", << >>, None, None)
    /\ log = << >>
    /\ tx_outcomes = << >>
    /\ suite = [block |-> GenesisBlock]
    /\ \E cfg \in FeeConfigs, b \in 0..MaxBalance, t \in 0..1 :
          fee = [phase |-> "idle", cfg |-> cfg,
                 balances |-> [p \in FeeParties |->
                                 IF p = "sender" THEN b
                                 ELSE IF p = "taxman" THEN t ELSE 0],
                 start |-> [p \in FeeParties |->
                              IF p = "sender" THEN b
                              ELSE IF p = "taxman" THEN t ELSE 0],
                 tx |-> [sender |-> "sender", gas_limit |-> 0],
                 gas_used |-> 0,
                 response |-> << >>,
                 withheld |-> 0,
                 update |-> None]

\* step 2 of the tx: taxman.withhold_fee, then the messages of its response
do_withhold_fee(gas_limit) ==
    /\ fee.phase = "idle"
    /\ UNCHANGED <<app_vars, suite>>
    /\ LET tx == [sender |-> "sender", gas_limit |-> gas_limit]
           r == withhold_fee(fee.cfg, FeeInfo, tx, "taxman")
           ran == run_response(fee.balances, r.msgs, "taxman")
       IN  fee' = [fee EXCEPT
                     !.phase = IF r.ok /\ ran.ok THEN "withheld" ELSE "rejected",
                     !.tx = tx,
                     !.start = fee.balances,
                     !.response = r.msgs,
                     !.withheld = IF r.ok /\ ran.ok THEN r.withhold_amount ELSE 0,
                     !.balances = IF r.ok /\ ran.ok THEN ran.balances ELSE @]

\* step 5 of the tx: taxman.finalize_fee, then the messages of its response
do_finalize_fee(gas_used) ==
    /\ fee.phase = "withheld"
    /\ UNCHANGED <<app_vars, suite>>
    /\ LET r == finalize_fee(fee.cfg, FeeInfo, fee.tx, [gas_used |-> gas_used])
           ran == run_response(fee.balances, r.msgs, "taxman")
       IN  fee' = [fee EXCEPT
                     !.phase = IF r.ok /\ ran.ok THEN "finalized" ELSE "finalize_failed",
                     !.gas_used = gas_used,
                     !.response = r.msgs,
                     !.balances = IF r.ok /\ ran.ok THEN ran.balances ELSE @]

\* an Execute of the taxman with UpdateConfig, between two txs' fee steps
do_update_config(sender, new_cfg) ==
    /\ fee.phase = "idle"
    /\ UNCHANGED <<app_vars, suite>>
    /\ fee' = [fee EXCEPT
                 !.cfg = update_config(FeeInfo, sender, fee.cfg, new_cfg).cfg,
                 !.update = Some([sender |-> sender, new_cfg |-> new_cfg,
                                  ok |-> update_config(FeeInfo, sender, fee.cfg,
                                                       new_cfg).ok,
                                  err |-> update_config(FeeInfo, sender, fee.cfg,
                                                        new_cfg).err])]

FeeNext ==
    \/ \E gas_limit \in 0..MaxGas : do_withhold_fee(gas_limit)
    \/ \E gas_used \in 0..MaxGas : do_finalize_fee(gas_used)
    \/ \E sender \in {"owner", "sender"}, new_cfg \in FeeConfigs :
          do_update_config(sender, new_cfg)

FeeSpec == FeeInit /\ [][FeeNext]_vars

(***************************************************************************)
(* The transaction executor as specified: a tx whose message fails leaves  *)
(* the block cache as it found it and runs no later message.               *)
(***************************************************************************)
RECURSIVE spec_run_msgs(_, _)
spec_run_msgs(cached, msgs) ==
    IF msgs = << >> THEN [ok |-> TRUE, store |-> cached]
    ELSE LET r == handle(cached, Head(msgs)) IN
         IF r.ok THEN spec_run_msgs(r.store, Tail(msgs))
         ELSE [ok |-> FALSE, store |-> r.store]

spec_run_tx(st, tx) ==
    LET r == spec_run_msgs(CacheNew(st, None), tx.msgs) IN
    IF r.ok THEN CacheFlush(r.store) ELSE st

RECURSIVE spec_run_txs(_, _)
spec_run_txs(st, txs) ==
    IF txs = << >> THEN st ELSE spec_run_txs(spec_run_tx(st, Head(txs)), Tail(txs))

(***************************************************************************)
(* The txs of a block replayed one message at a time on a plain store, as  *)
(* the handlers leave it: the store before and after each tx, and whether  *)
(* a message of the tx failed.                                             *)
(***************************************************************************)
RECURSIVE ReplayMsgs(_, _, _)
ReplayMsgs(st, msgs, failed) ==
    IF msgs = << >> THEN [store |-> st, failed |-> failed]
    ELSE LET r == handle(st, Head(msgs)) IN
         ReplayMsgs(r.store, Tail(msgs), failed \/ ~r.ok)

RECURSIVE Replay(_, _)
Replay(st, txs) ==
    IF txs = << >> THEN << >>
    ELSE LET r == ReplayMsgs(st, Head(txs).msgs, FALSE) IN
         <<[before |-> st.data, after |-> r.store.data, failed |-> r.failed]>>
            \o Replay(r.store, Tail(txs))

SameAt(f, g, k) ==
    /\ k \in DOMAIN f <=> k \in DOMAIN g
    /\ k \in DOMAIN f => f[k] = g[k]

\* the keys a replayed tx wrote or removed
Written(e) == {k \in DOMAIN e.before \cup DOMAIN e.after : ~SameAt(e.before, e.after, k)}

BatchOf(p) == IF IsSome(p) THEN p[1] ELSE EmptyBatch

\* the committed store with the pending batch applied
Staged(s, p) == Flush(Mem(s[1]), BatchOf(p)).data

(***************************************************************************)
(* What a query answers, read off the data of a store                      *)
(***************************************************************************)
QueryMatches(data, req, resp) ==
    CASE req.type = "Info" ->
           /\ resp.chain_id = data[CHAIN_ID]
           /\ resp.last_finalized_block = data[LAST_FINALIZED_BLOCK]
      [] req.type = "Account" ->
           /\ resp.address = req.address
           /\ resp.code_hash = data[ACCOUNTS(req.address)].code_hash
           /\ resp.admin = data[ACCOUNTS(req.address)].admin
      [] req.type = "Accounts" ->
           LET inRange == {a \in Addrs : /\ ACCOUNTS(a) \in DOMAIN data
                                         /\ (IsSome(req.start_after) => a > req.start_after[1])}
               lim == IF IsSome(req.limit) THEN req.limit[1] ELSE DEFAULT_PAGE_LIMIT
               listed == {resp[i].address : i \in 1..Len(resp)}
           IN  /\ Len(resp) = IF Cardinality(inRange) < lim THEN Cardinality(inRange) ELSE lim
               /\ listed \subseteq inRange
               /\ \A a \in inRange \ listed : \A b \in listed : b < a
               /\ \A i \in 1..Len(resp) :
                     /\ i > 1 => resp[i - 1].address < resp[i].address
                     /\ resp[i].code_hash = data[ACCOUNTS(resp[i].address)].code_hash
                     /\ resp[i].admin = data[ACCOUNTS(resp[i].address)].admin
      [] req.type = "WasmSmart" ->
           /\ resp.contract = req.contract
           /\ resp.data = IF req.msg = "get" /\ PrefixKey(req.contract, UserKey) \in DOMAIN data
                          THEN Some(data[PrefixKey(req.contract, UserKey)])
                          ELSE None
      [] OTHER -> FALSE

(***************************************************************************)
(* Claims                                                                  *)
(***************************************************************************)

\* C1: a finalize_block called while the pending batch of an earlier
\* finalize_block has not been committed fails, with the error that says the
\* current block is already there, for every block and every tx list.
C1_FinalizeWhilePendingFails ==
    [][(last'.op = "finalize_block" /\ IsSome(pending)) =>
          /\ last'.ret = "Err"
          /\ last'.err = "current block info already exists"]_vars

C1_Witness ==
    /\ last.op = "finalize_block"
    /\ last.ret = "Err"
    /\ last.err = "current block info already exists"
    /\ IsSome(pending)

\* C2: in every reachable state the pending batch is there exactly when the
\* current-block info is there.
C2_PendingIffCurrentBlock == IsSome(pending) <=> IsSome(current_block)

C2_Witness ==
    /\ IsSome(pending)
    /\ IsSome(current_block)
    /\ last.op = "query"

\* C3: a commit that follows a successful finalize_block(block, txs) clears
\* the pending batch and the current block, applies exactly the staged batch
\* and the block as LAST_FINALIZED_BLOCK, and leaves the store equal to the
\* pre-block store with the writes of the block's successful txs applied in
\* order and nothing else.
C3_CommitAppliesSuccessfulTxs ==
    [][(/\ last'.op = "commit" /\ last'.ret = "Ok"
        /\ last.op = "finalize_block" /\ last.ret = "Ok") =>
          /\ pending' = None
          /\ current_block' = None
          /\ store' = Some(Write(Flush(Mem(store[1]), pending[1]),
                                 LAST_FINALIZED_BLOCK, current_block[1]).data)
          /\ store' = Some(Write(Flush(Mem(store[1]),
                                       Disassemble(spec_run_txs(CacheNew(Mem(store[1]), None),
                                                                last.txs)).batch),
                                 LAST_FINALIZED_BLOCK, current_block[1]).data)]_vars

C5_AcceptedBlockFollowsLast ==
    (/\ IsSome(current_block)
     /\ IsSome(store)
     /\ LAST_FINALIZED_BLOCK \in DOMAIN store[1]) =>
        /\ current_block[1].height = store[1][LAST_FINALIZED_BLOCK].height + 1
        /\ current_block[1].timestamp > store[1][LAST_FINALIZED_BLOCK].timestamp

\* C6: a query that succeeds, at any point of the lifecycle, answers from
\* the state as of LAST_FINALIZED_BLOCK, the store as init_chain or commit
\* last left it: what the pending batch stages, and anything else that is
\* not of a committed block, is in no answer.
C6_QuerySeesLastFinalized ==
    [][(last'.op = "query" /\ last'.ret = "Ok") =>
          QueryMatches(finalized, last'.req[1], last'.resp[1])]_vars

\* C7: a query that returns, with Ok or with Err, leaves the committed store,
\* the pending batch and the current-block info as they were.
C7_QueryChangesNothing ==
    [][(last'.op = "query" /\ last'.ret \in {"Ok", "Err"}) =>
          /\ store' = store
          /\ pending' = pending
          /\ current_block' = current_block]_vars

\* C8: finalize_block leaves in the block cache exactly what the txs leave
\* when a tx whose message fails writes nothing and every other tx writes all
\* its messages wrote; and no message of a tx runs after one that failed.
C8_TxAtomic ==
    [][(last'.op = "finalize_block" /\ IsSome(store)) =>
          /\ pending' = Some(Disassemble(spec_run_txs(CacheNew(Mem(store[1]), pending),
                                                      last'.txs)).batch)
          /\ \A i \in 1..Len(log') : \A j \in 1..(Len(log'[i]) - 1) :
                log'[i][j] = "info"]_vars

RECURSIVE ReplayLog(_, _)
ReplayLog(st, msgs) ==
    IF msgs = << >> THEN << >>
    ELSE <<LogEntry(handle(st, Head(msgs)).ok)>>
            \o ReplayLog(handle(st, Head(msgs)).store, Tail(msgs))

\* C11: the txs of a block execute in block order, each against what its
\* predecessors left: in a finalized block every message of the i-th tx has
\* the result it has on the pre-block store with the writes of txs 1..i-1
\* applied and none of the writes of txs i+1.. (so in [tx_a, tx_b] tx_b sees
\* what tx_a wrote, and in [tx_b, tx_a] it sees none of it).
C11_TxsRunInBlockOrder ==
    (last.op = "finalize_block" /\ last.ret = "Ok") =>
        LET rep == Replay(Mem(store[1]), last.txs) IN
        /\ Len(log) = Len(last.txs)
        /\ \A i \in 1..Len(last.txs) :
              log[i] = ReplayLog(Mem(rep[i].before), last.txs[i].msgs)

\* [StoreCode(b)], [Instantiate(hash(b))] on a store without the code: the
\* second tx finds the code the first one stored
C11_Witness ==
    /\ last.op = "finalize_block"
    /\ last.ret = "Ok"
    /\ Len(last.txs) = 2
    /\ last.txs[1].msgs[1].type = "StoreCode"
    /\ last.txs[2].msgs[1].type = "Instantiate"
    /\ CODES(last.txs[2].msgs[1].code_hash) \notin DOMAIN store[1]
    /\ log = <<<<"info">>, <<"info">>>>

\* a message of msgs, handled in order on st, is a StoreCode of bytes whose
\* hash is in CODES when the message runs
RECURSIVE HasRepeatedStoreCode(_, _)
HasRepeatedStoreCode(st, msgs) ==
    IF msgs = << >> THEN FALSE
    ELSE \/ /\ Head(msgs).type = "StoreCode"
            /\ Has(st, CODES(Hash(Head(msgs).wasm_byte_code)))
         \/ HasRepeatedStoreCode(handle(st, Head(msgs)).store, Tail(msgs))

\* C12: CODES is append-only and content-addressed.  Over a finalize_block:
\* a code that was in CODES (committed or staged) is still there with the
\* same bytes; every code in CODES is stored under the hash of its bytes; and
\* a tx with a StoreCode of bytes whose hash is already in CODES has a failed
\* message phase, so nothing that tx wrote is in the block cache.
C12_CodesAppendOnly ==
    [][(last'.op = "finalize_block" /\ IsSome(store)) =>
          LET before == Staged(store, pending)
              after == Staged(store', pending')
              rep == Replay(Mem(before), last'.txs)
          IN  /\ \A h \in Hashes :
                    CODES(h) \in DOMAIN before =>
                       /\ CODES(h) \in DOMAIN after
                       /\ after[CODES(h)] = before[CODES(h)]
              /\ \A h \in Hashes :
                    CODES(h) \in DOMAIN after => Hash(after[CODES(h)]) = h
              /\ \A i \in 1..Len(last'.txs) :
                    HasRepeatedStoreCode(Mem(rep[i].before), last'.txs[i].msgs) =>
                       /\ tx_outcomes' # << >> => tx_outcomes'[i] = "Err"
                       /\ rep[i].after = rep[i].before]_vars

\* the messages of a tx handled in order on a plain store: for each message
\* the data of the store before and after it, and its result
RECURSIVE ReplaySteps(_, _)
ReplaySteps(st, msgs) ==
    IF msgs = << >> THEN << >>
    ELSE <<[msg |-> Head(msgs), before |-> st.data,
            after |-> handle(st, Head(msgs)).store.data,
            ok |-> handle(st, Head(msgs)).ok]>>
            \o ReplaySteps(handle(st, Head(msgs)).store, Tail(msgs))

\* C13: an Instantiate whose derived address has an entry in ACCOUNTS when
\* the message runs fails, and leaves the account and the contract's storage
\* (the whole store) as they were.
C13_InstantiateExistingFails ==
    [][(last'.op = "finalize_block" /\ IsSome(store)) =>
          LET rep == Replay(Mem(Staged(store, pending)), last'.txs) IN
          \A i \in 1..Len(last'.txs) :
             LET steps == ReplaySteps(Mem(rep[i].before), last'.txs[i].msgs) IN
             \A j \in 1..Len(steps) :
                (/\ steps[j].msg.type = "Instantiate"
                 /\ ACCOUNTS(AddrCompute(steps[j].msg.code_hash, steps[j].msg.salt))
                       \in DOMAIN steps[j].before) =>
                   /\ log'[i][j] = "error"
                   /\ ~steps[j].ok
                   /\ steps[j].after = steps[j].before]_vars

\* every account in the data of a store has a code_hash that is a key of CODES
AccountsHaveCode(data) ==
    \A a \in Addrs :
       ACCOUNTS(a) \in DOMAIN data => CODES(data[ACCOUNTS(a)].code_hash) \in DOMAIN data

\* C14: in every reachable state, committed (the store) and staged (the store
\* with the pending batch applied), every entry of ACCOUNTS has a code_hash
\* that is a key of CODES.
C14_AccountsHaveCode ==
    IsSome(store) =>
       /\ AccountsHaveCode(store[1])
       /\ AccountsHaveCode(Staged(store, pending))

\* an account is committed, and the block being staged has a failed tx: an
\* Instantiate that failed
C14_Witness ==
    /\ IsSome(store)
    /\ \E a \in Addrs : ACCOUNTS(a) \in DOMAIN store[1]
    /\ last.op = "finalize_block"
    /\ last.ret = "Ok"
    /\ last.txs # << >>
    /\ last.txs[1].msgs[1].type = "Instantiate"
    /\ tx_outcomes = <<"Err">>

\* the senders of txs
Creators == {"alice", "bob"}

CreatorIndex(sender) == IF sender = "alice" THEN 1 ELSE 2

\* the address the caller computes: Addr::compute(signer.address(),
\* code_hash, &salt), a hash of (creator, code_hash, salt), modelled as an
\* injective encoding of the three
CallerAddrCompute(sender, code_hash, salt) ==
    CreatorIndex(sender) * 10000 + code_hash * 10 + salt

\* the address the app registers the account of an Instantiate under, when
\* the tx is sent by `sender`
RegisteredAddr(sender, code_hash, salt) == AddrCompute(code_hash, salt)

\* C15: the address of an instantiated contract is a function of (creator,
\* code_hash, salt): after an Instantiate that succeeded the account is
\* registered under the address the caller computes from (sender, code_hash,
\* salt), whoever the sender is, and two different creators instantiating the
\* same code with the same salt get different addresses.
C15_AddressFromCreator ==
    (last.op = "finalize_block" /\ last.ret = "Ok") =>
        LET rep == Replay(Mem(store[1]), last.txs) IN
        \A i \in 1..Len(last.txs) :
           LET steps == ReplaySteps(Mem(rep[i].before), last.txs[i].msgs) IN
           \A j \in 1..Len(steps) :
              (steps[j].msg.type = "Instantiate" /\ log[i][j] = "info") =>
                 /\ \A sender \in Creators :
                       /\ RegisteredAddr(sender, steps[j].msg.code_hash, steps[j].msg.salt)
                             = CallerAddrCompute(sender, steps[j].msg.code_hash,
                                                 steps[j].msg.salt)
                       /\ ACCOUNTS(CallerAddrCompute(sender, steps[j].msg.code_hash,
                                                     steps[j].msg.salt))
                             \in DOMAIN steps[j].after
                 /\ \A s1, s2 \in Creators :
                       s1 # s2 =>
                          RegisteredAddr(s1, steps[j].msg.code_hash, steps[j].msg.salt)
                             # RegisteredAddr(s2, steps[j].msg.code_hash, steps[j].msg.salt)

\* the key k lies under the prefix w/addr/
UnderPrefix(k, addr) == Len(k) = 3 /\ k[1] = CONTRACT_NAMESPACE /\ k[2] = addr

\* the addresses of the model, and those of contracts with another salt
SandboxAddrs == Addrs \cup {AddrCompute(h, 2) : h \in Hashes}

\* the entry points of a contract and the messages they are called with
EntryCalls ==
    ({"instantiate"} \X InstantiateMsgTexts)
       \cup ({"execute"} \X ExecuteMsgTexts)
       \cup ({"query"} \X QueryMsgs)

\* the keys at which two stores differ
Changed(f, g) == {k \in DOMAIN f \cup DOMAIN g : ~SameAt(f, g, k)}

CeilMul(x, rate) ==
    CHOOSE n \in 0..(x * rate) :
       /\ n * DecimalFraction >= x * rate
       /\ n = 0 \/ (n - 1) * DecimalFraction < x * rate

\* C17: withhold_fee force-transfers exactly ceil(gas_limit * fee_rate) of
\* fee_denom from the tx sender to the taxman through the bank; when that
\* amount is zero its response has no message and no balance moves; when the
\* sender's balance is below the amount the transfer fails, the tx is
\* rejected and no balance moves.
C17_WithholdFee ==
    [][(fee.phase = "idle" /\ fee'.phase # "idle") =>
          LET amount == CeilMul(fee'.tx.gas_limit, fee.cfg.fee_rate) IN
          /\ amount = 0 =>
                /\ fee'.response = << >>
                /\ fee'.phase = "withheld"
                /\ fee'.balances = fee.balances
          /\ amount > 0 =>
                fee'.response = <<[type |-> "ForceTransfer", bank |-> "bank",
                                   from |-> fee'.tx.sender, to |-> "taxman",
                                   denom |-> fee.cfg.fee_denom, amount |-> amount]>>
          /\ (amount > 0 /\ fee.balances[fee'.tx.sender] >= amount) =>
                /\ fee'.phase = "withheld"
                /\ fee'.withheld = amount
                /\ fee'.balances[fee'.tx.sender] = fee.balances[fee'.tx.sender] - amount
                /\ fee'.balances["taxman"] = fee.balances["taxman"] + amount
                /\ fee'.balances["owner"] = fee.balances["owner"]
                /\ fee'.balances["other"] = fee.balances["other"]
          /\ (amount > 0 /\ fee.balances[fee'.tx.sender] < amount) =>
                /\ fee'.phase = "rejected"
                /\ fee'.balances = fee.balances]_vars

\* a fee was withheld that ceil and floor disagree on
C17_Witness ==
    /\ fee.phase = "withheld"
    /\ (fee.tx.gas_limit * fee.cfg.fee_rate) % DecimalFraction # 0
    /\ fee.withheld > 0
    /\ fee.balances["taxman"] = fee.start["taxman"] + fee.withheld
    /\ fee.balances["sender"] = fee.start["sender"] - fee.withheld

\* the Transfer the taxman emits for a non-zero amount, none for zero
TransferIfNonZero(to, denom, amount) ==
    IF amount = 0 THEN << >>
    ELSE <<[type |-> "Transfer", to |-> to, denom |-> denom, amount |-> amount]>>

\* C18: finalize_fee computes charge = ceil(gas_used * fee_rate) and refund =
\* withheld - charge, zero when the charge exceeds what was withheld; its
\* response is the Transfer of the charge to the owner followed by the
\* Transfer of the refund to the tx sender, each left out when its amount is
\* zero; when gas_used is at most gas_limit these transfers succeed and move
\* exactly those amounts out of the taxman. (Amounts that fit the 128-bit
\* integer finalize_fee computes in.)
C18_FinalizeFee ==
    [][(fee.phase = "withheld" /\ fee'.phase # "withheld") =>
          LET withheld == CeilMul(fee.tx.gas_limit, fee.cfg.fee_rate)
              charge == CeilMul(fee'.gas_used, fee.cfg.fee_rate)
              refund == IF withheld > charge THEN withheld - charge ELSE 0
          IN  (withheld <= Max128 /\ charge <= Max128) =>
                /\ fee'.response =
                      TransferIfNonZero("owner", fee.cfg.fee_denom, charge)
                      \o TransferIfNonZero(fee.tx.sender, fee.cfg.fee_denom, refund)
                /\ \A i \in 1..Len(fee'.response) : fee'.response[i].amount > 0
                /\ fee'.gas_used <= fee.tx.gas_limit => fee'.phase = "finalized"
                /\ fee'.phase = "finalized" =>
                      /\ fee'.balances["owner"] = fee.balances["owner"] + charge
                      /\ fee'.balances[fee.tx.sender] =
                            fee.balances[fee.tx.sender] + refund
                      /\ fee'.balances["taxman"] =
                            fee.balances["taxman"] - charge - refund
                      /\ fee'.balances["other"] = fee.balances["other"]]_vars

\* a fee was finalized with both a charge and a refund, the charge rounded up
C18_Witness ==
    /\ fee.phase = "finalized"
    /\ Len(fee.response) = 2
    /\ fee.response[1].to = "owner"
    /\ fee.response[2].to = "sender"
    /\ (fee.gas_used * fee.cfg.fee_rate) % DecimalFraction # 0
    /\ fee.balances["owner"] = fee.start["owner"] + fee.response[1].amount
    /\ fee.balances["sender"] =
          fee.start["sender"] - fee.withheld + fee.response[2].amount

\* what the fee pipeline has changed of a party's balance of fee_denom
BalanceDelta(p) == fee.balances[p] - fee.start[p]

\* C19: fee conservation: after withhold_fee and after finalize_fee, for
\* every gas_limit, gas_used and fee_rate, the changes the fee pipeline made
\* to the fee_denom balances of sender, taxman and owner sum to zero.
C19_FeeConservation ==
    fee.phase \in {"withheld", "rejected", "finalized", "finalize_failed"} =>
        BalanceDelta("sender") + BalanceDelta("taxman") + BalanceDelta("owner") = 0

\* a finalized tx that paid a charge to the owner and got none of it back
C19_Witness ==
    /\ fee.phase = "finalized"
    /\ BalanceDelta("owner") > 0
    /\ BalanceDelta("sender") < 0
    /\ BalanceDelta("sender") + BalanceDelta("taxman") + BalanceDelta("owner") = 0

\* a key of contract storage: where the bank keeps the balances the taxman
\* moves and the sender's account keeps its nonce
FeeOrNonceKey(k) == Len(k) = 3 /\ k[1] = CONTRACT_NAMESPACE

\* every tx of txs has a message that fails when the tx runs on st
EveryTxFails(st, txs) ==
    /\ txs # << >>
    /\ \A i \in 1..Len(txs) : ReplayMsgs(st, txs[i].msgs, FALSE).failed

\* C20: when the message phase of a tx fails, the state after the tx differs
\* from the state before it only by the nonce advancement and the fee
\* withheld less the refund.  Over a finalize_block that returns Ok and whose
\* txs all have a failing message: every key of the block cache that differs
\* from before the block is a key of the bank's balances or of the sender's
\* nonce.
C20_FailedTxKeepsOnlyFee ==
    [][(/\ last'.op = "finalize_block"
        /\ last'.ret = "Ok"
        /\ IsSome(store)
        /\ EveryTxFails(Mem(Staged(store, pending)), last'.txs)) =>
          \A k \in Changed(Staged(store, pending), Staged(store', pending')) :
             FeeOrNonceKey(k)]_vars

(***************************************************************************)
(* Blocks of one tx that names its sender and gas limit, on a chain whose  *)
(* fee configuration and balances are those of FeeInit.  The App is the    *)
(* one of app.rs: run_tx reads tx.msgs only.                               *)
(***************************************************************************)
SignedTxs == [msgs : SeqsUpTo(Messages, 1), sender : {"sender"}, gas_limit : 0..MaxGas]

AuthNext ==
    \/ \E tx \in SignedTxs :
          /\ LastFinalizedHeight < MaxHeight
          /\ finalize_block(ProposedBlock, <<tx>>)
    \/ commit

AuthSpec == FeeInit /\ [][AuthNext]_vars

\* withhold_fee of tx, or the transfer of its response, fails on balances
WithholdFails(cfg, balances, tx) ==
    \/ ~withhold_fee(cfg, FeeInfo, tx, "taxman").ok
    \/ ~run_response(balances, withhold_fee(cfg, FeeInfo, tx, "taxman").msgs,
                     "taxman").ok

\* C21: when the fee withholding of a tx fails (the sender cannot pay
\* ceil(gas_limit * fee_rate)), nothing of the tx is persisted: none of its
\* messages is executed, the block cache is what it was before the tx, and
\* the outcome of the tx is an error.
C21_RejectedTxPersistsNothing ==
    [][(/\ last'.op = "finalize_block"
        /\ last'.ret = "Ok"
        /\ WithholdFails(fee.cfg, fee.balances, last'.txs[1])) =>
          /\ log'[1] = << >>
          /\ Staged(store', pending') = Staged(store, pending)
          /\ tx_outcomes'[1] = "Err"]_vars

\* C22: init_chain runs every genesis message in list order on the store that
\* holds chain_id; when one of them fails init_chain fails and the chain is
\* not initialised; otherwise init_chain returns Ok and the store holds
\* chain_id and what all the genesis messages wrote.
C22_GenesisMsgsRun ==
    [][(last'.op = "init_chain" /\ IsSome(store)) =>
          IF ReplayMsgs(Write(Mem(store[1]), CHAIN_ID, last'.req[1].chain_id),
                        last'.req[1].msgs, FALSE).failed
          THEN /\ last'.ret = "Err"
               /\ store' = store
          ELSE /\ last'.ret = "Ok"
               /\ store' = Some(ReplayMsgs(Write(Mem(store[1]), CHAIN_ID,
                                                  last'.req[1].chain_id),
                                            last'.req[1].msgs, FALSE).store.data)]_vars

\* C23: only the chain owner can change the configuration: an update_config
\* whose sender is not config.owner fails with the ownership error and the
\* stored config stays as it was; one sent by the owner succeeds and the
\* stored config is exactly the new config.
C23_OnlyOwnerUpdatesConfig ==
    [][(fee.phase = "idle" /\ fee'.phase = "idle" /\ IsSome(fee'.update)) =>
          IF fee'.update[1].sender = FeeInfo.owner
          THEN /\ fee'.update[1].ok
               /\ fee'.cfg = fee'.update[1].new_cfg
          ELSE /\ ~fee'.update[1].ok
               /\ fee'.update[1].err # ""
               /\ fee'.cfg = fee.cfg]_vars

\* an update_config by another than the owner was refused, and the config it
\* asked for is not the stored one
C23_Witness ==
    /\ fee.phase = "idle"
    /\ IsSome(fee.update)
    /\ fee.update[1].sender # FeeInfo.owner
    /\ ~fee.update[1].ok
    /\ fee.update[1].new_cfg # fee.cfg

\* the data the handlers leave after the messages of all of txs, in order
RECURSIVE ReplayEnd(_, _)
ReplayEnd(st, txs) ==
    IF txs = << >> THEN st.data
    ELSE ReplayEnd(ReplayMsgs(st, Head(txs).msgs, FALSE).store, Tail(txs))

\* what the messages of each tx of txs return, in order
RECURSIVE ReplayLogs(_, _)
ReplayLogs(st, txs) ==
    IF txs = << >> THEN << >>
    ELSE <<ReplayLog(st, Head(txs).msgs)>>
            \o ReplayLogs(ReplayMsgs(st, Head(txs).msgs, FALSE).store, Tail(txs))

IsStoreAndInstantiate(tx) ==
    /\ Len(tx.msgs) = 2
    /\ tx.msgs[1].type = "StoreCode"
    /\ tx.msgs[2].type = "Instantiate"
    /\ tx.msgs[2].code_hash = Hash(tx.msgs[1].wasm_byte_code)
    /\ tx.msgs[2].msg = "ok"

\* C25: within a tx the messages run in list order and each sees what the
\* earlier messages of the tx wrote: a tx [StoreCode(bytes),
\* Instantiate(hash(bytes), ...)] run on a state that does not hold that code
\* succeeds in both messages, and after it the account at the derived
\* address is registered with code_hash hash(bytes).
C25_MsgsSeeEarlierWrites ==
    (last.op = "finalize_block" /\ last.ret = "Ok") =>
        LET rep == Replay(Mem(store[1]), last.txs) IN
        \A i \in 1..Len(last.txs) :
           (/\ IsStoreAndInstantiate(last.txs[i])
            /\ CODES(last.txs[i].msgs[2].code_hash) \notin DOMAIN rep[i].before) =>
              /\ log[i] = <<"info", "info">>
              /\ tx_outcomes[i] = "Ok"
              /\ ACCOUNTS(AddrCompute(last.txs[i].msgs[2].code_hash,
                                      last.txs[i].msgs[2].salt))
                    \in DOMAIN Staged(store, pending)
              /\ Staged(store, pending)[ACCOUNTS(AddrCompute(
                     last.txs[i].msgs[2].code_hash,
                     last.txs[i].msgs[2].salt))].code_hash
                    = last.txs[i].msgs[2].code_hash

\* a block of the one tx [StoreCode(bytes), Instantiate(hash(bytes))] was
\* finalized on a chain that had not stored the code
C25_Witness ==
    /\ last.op = "finalize_block"
    /\ last.ret = "Ok"
    /\ Len(last.txs) = 1
    /\ IsStoreAndInstantiate(last.txs[1])
    /\ CODES(last.txs[1].msgs[2].code_hash) \notin DOMAIN store[1]
    /\ CODES(last.txs[1].msgs[2].code_hash) \in DOMAIN pending[1].put

\* step is a message that called a contract whose entry point returned an
\* error
FailedContractCall(step) ==
    /\ ~step.ok
    /\ \/ /\ step.msg.type = "Instantiate"
          /\ CODES(step.msg.code_hash) \in DOMAIN step.before
       \/ /\ step.msg.type = "Execute"
          /\ ACCOUNTS(step.msg.contract) \in DOMAIN step.before

\* C26: a contract call that fails unwinds completely: when the instantiate
\* or execute entry point returns an error after writing through db_write /
\* db_remove, the store the handler gives back is the one it was given (none
\* of the writes, no ACCOUNTS entry), the message is recorded as failed and
\* so is its tx; a block of that one message leaves the block cache as it was.
C26_FailedCallUnwinds ==
    [][(last'.op = "finalize_block" /\ last'.ret = "Ok" /\ IsSome(store)) =>
          LET rep == Replay(Mem(Staged(store, pending)), last'.txs) IN
          \A i \in 1..Len(last'.txs) :
             LET steps == ReplaySteps(Mem(rep[i].before), last'.txs[i].msgs) IN
             \A j \in 1..Len(steps) :
                FailedContractCall(steps[j]) =>
                   /\ steps[j].after = steps[j].before
                   /\ log'[i][j] = "error"
                   /\ tx_outcomes'[i] = "Err"
                   /\ (Len(last'.txs) = 1 /\ Len(steps) = 1) =>
                         Staged(store', pending') = Staged(store, pending)]_vars

(***************************************************************************)
(* A driver that keeps calling finalize_block and commit, in any order and *)
(* with any block info, and never forgoes for ever a call that would       *)
(* succeed.                                                                *)
(***************************************************************************)
LiveNext ==
    \/ \E b \in BlockInfos, txs \in SmallBlockTxs : finalize_block(b, txs)
    \/ commit

FinalizeOk ==
    \E b \in BlockInfos, txs \in SmallBlockTxs :
       finalize_block(b, txs) /\ last'.ret = "Ok"

CommitOk == commit /\ last'.ret = "Ok"

LiveSpec ==
    Init /\ [][LiveNext]_vars /\ SF_vars(FinalizeOk) /\ SF_vars(CommitOk)

\* C27: the chain continues after user-visible failures: whatever calls were
\* made before (txs that failed, a finalize_block or a commit that was
\* rejected), a driver that keeps trying completes again and again a
\* finalize_block that returns Ok followed by a commit that returns Ok.
C27_ChainContinues ==
    []<>(last.op = "finalize_block" /\ last.ret = "Ok")
      /\ []<>(last.op = "commit" /\ last.ret = "Ok")

\* C28: the App never loses its store: when init_chain, finalize_block,
\* commit or query is called on an App that holds its store and returns, with
\* Ok or with an error, the App still holds its store.
C28_StoreIsKept ==
    [][(IsSome(store) /\ last'.ret \in {"Ok", "Err"}) => IsSome(store')]_vars

\* C29: a finalize_block that returns an error changes nothing: the pending
\* batch, the current-block info and the committed store are what they were
\* before the call.
C29_RejectedFinalizeChangesNothing ==
    [][(last'.op = "finalize_block" /\ last'.ret = "Err") =>
          /\ pending' = pending
          /\ current_block' = current_block
          /\ store' = store]_vars

\* C30: for a tx whose fee was withheld, finalize_fee does not fail, and the
\* withheld amount it recomputes from gas_limit and fee_rate is the amount
\* withhold_fee transferred (here for gas_used = 0, the smallest charge).
C30_FinalizeRecomputesWithheld ==
    fee.phase = "withheld" =>
        /\ finalize_fee(fee.cfg, FeeInfo, fee.tx, [gas_used |-> 0]).ok
        /\ finalize_fee(fee.cfg, FeeInfo, fee.tx, [gas_used |-> 0]).withheld_amount
              = fee.withheld

\* the total amount the messages of a response transfer
RECURSIVE PaidOut(_)
PaidOut(msgs) ==
    IF msgs = << >> THEN 0 ELSE Head(msgs).amount + PaidOut(Tail(msgs))

\* C31: the taxman keeps nothing and pays nothing of its own: after
\* finalize_fee the charge and the refund it paid out add up to the amount
\* withhold_fee withheld, and the taxman's balance of fee_denom is what it
\* was before the tx, also when gas_used exceeds gas_limit.
C31_TaxmanKeepsNothing ==
    fee.phase = "finalized" =>
        /\ PaidOut(fee.response) = fee.withheld
        /\ BalanceDelta("taxman") = 0

(***************************************************************************)
(* The test suite (crates/testing/src/suite.rs): a TestSuite owns an App   *)
(* and tracks the last finalized block in TestSuite.block.  A call of the  *)
(* App may return an error of its own (a second current block) or one the  *)
(* storage raises (fault); the latter is taken to leave the App as it was. *)
(***************************************************************************)
MaxSuiteHeight == 3

BlockTime == 1

Faults == {"none", "finalize", "commit"}

\* TestSuite::new_with_vm: App::new, init_chain, block = genesis_block
SuiteInit ==
    /\ store = Some(Write(Mem(<< >>), CHAIN_ID, "grug-1").data)
    /\ pending = None
    /\ current_block = None
    /\ finalized = store[1]
    /\ fee = [phase |-> "none"]
    /\ panicked = FALSE
    /\ last = Returned("init_chain", "Ok", "", << >>,
                       Some([chain_id |-> "grug-1", msgs |-> << >>]), None)
    /\ log = << >>
    /\ tx_outcomes = << >>
    /\ suite = [block |-> GenesisBlock]

\* make_block, "Advance block height and time"
AdvanceBlock(block) ==
    [height |-> block.height + 1, timestamp |-> block.timestamp + BlockTime]

\* make_block after do_finalize_block ran the txs: put_current_block, the
\* sanity check on the number of outcomes, then do_commit
make_block_finalized(ran, put, block, txs, fault) ==
    /\ log' = ran.log
    /\ IF ~put.ok
       THEN /\ store' = Some(Disassemble(ran.store).store.data)
            /\ pending' = Some(Disassemble(ran.store).batch)
            /\ current_block' = put.now
            /\ tx_outcomes' = << >>
            /\ UNCHANGED finalized
            /\ last' = Returned("make_block", "Err",
                                "current block info already exists", txs, None, None)
       ELSE IF Len(ran.log) # Len(txs) \/ fault = "commit"
       THEN /\ store' = Some(Disassemble(ran.store).store.data)
            /\ pending' = Some(Disassemble(ran.store).batch)
            /\ current_block' = put.now
            /\ tx_outcomes' = [i \in 1..Len(ran.log) |-> TxOutcome(ran.log[i])]
            /\ UNCHANGED finalized
            /\ last' = Returned("make_block", "Err",
                                IF fault = "commit" THEN "commit failed"
                                ELSE "something is wrong", txs, None, None)
       ELSE /\ store' = Some(Write(Flush(Disassemble(ran.store).store,
                                         Disassemble(ran.store).batch),
                                   LAST_FINALIZED_BLOCK, block).data)
            /\ pending' = None
            /\ current_block' = None
            /\ tx_outcomes' = [i \in 1..Len(ran.log) |-> TxOutcome(ran.log[i])]
            /\ finalized' = store'[1]
            /\ last' = Returned("make_block", "Ok", "", txs, None, None)

\* TestSuite::make_block
make_block(txs, fault) ==
    /\ ~panicked
    /\ IsSome(store)
    /\ suite.block.height < MaxSuiteHeight
    /\ UNCHANGED <<panicked, fee>>
    /\ suite' = [suite EXCEPT !.block = AdvanceBlock(suite.block)]
    /\ IF fault = "finalize"
       THEN /\ UNCHANGED <<store, pending, current_block, finalized>>
            /\ log' = << >>
            /\ tx_outcomes' = << >>
            /\ last' = Returned("make_block", "Err", "finalize_block failed",
                                txs, None, None)
       ELSE make_block_finalized(run_txs(CacheNew(Mem(store[1]), pending), txs, << >>),
                                 put_current_block(current_block,
                                                   AdvanceBlock(suite.block)),
                                 AdvanceBlock(suite.block), txs, fault)

SuiteNext == \E txs \in SmallBlockTxs, fault \in Faults : make_block(txs, fault)

SuiteSpec == SuiteInit /\ [][SuiteNext]_vars

\* the last block the App committed; the genesis block before the first
LastFinalizedBlock ==
    IF LAST_FINALIZED_BLOCK \in DOMAIN store[1]
    THEN store[1][LAST_FINALIZED_BLOCK] ELSE GenesisBlock

\* C32: the block the test suite tracks is the App's LAST_FINALIZED_BLOCK:
\* after any sequence of make_block calls, those that returned an error
\* included, TestSuite.block has the height and timestamp of the last block
\* the App committed.
C32_SuiteTracksLastFinalized ==
    suite.block = LastFinalizedBlock

====
